---- MODULE Spec2Model ----
(***************************************************************************)
(* Model of the H3 service (src/app.py): the REST handlers, the v3/v4      *)
(* compatibility shims and the fallback polygon sampler.                   *)
(*                                                                         *)
(* Numbers.  Coordinates are exact rationals.  The unit of length is the   *)
(* sampler's base step (0.002 degree, app.py:112), so a ring vertex is a   *)
(* pair <<lng, lat>> of integers and a sample point is a pair of fractions *)
(* <<num, den>> with den > 0.  Floating point rounding is not modelled;    *)
(* the 1e-15 term of _point_in_poly (app.py:101) is a positive             *)
(* infinitesimal: it decides the comparison only when the exact crossing   *)
(* abscissa equals lng.                                                    *)
(*                                                                         *)
(* The h3 package is external.  Which functions it exposes is the state    *)
(* variable h3; whether a call raises is the per-request choice lib.       *)
(***************************************************************************)
EXTENDS Integers, Sequences, FiniteSets, TLC

VARIABLES h3, pc, op, args, lib, trace, out, info

vars == <<h3, pc, op, args, lib, trace, out, info>>

----------------------------------------------------------------------------
(* Bounds of the model                                                     *)

MaxRingLen == 4
MaxExtent == 5
MaxBudget == 5

----------------------------------------------------------------------------
(* Program constants                                                       *)

UnitsPerDegree == 500
DefaultMaxPts == 2500
DefaultRes == 9
MinRes == 0
MaxRes == 15

LatMax == 90 * UnitsPerDegree
LngMax == 180 * UnitsPerDegree

----------------------------------------------------------------------------
(* Arithmetic helpers                                                      *)

Max(a, b) == IF a >= b THEN a ELSE b

Min(a, b) == IF a <= b THEN a ELSE b

Abs(a) == IF a >= 0 THEN a ELSE 0 - a

\* math.ceil of the fraction n / d, d > 0
CeilDiv(n, d) == 0 - ((0 - n) \div d)

\* exact fractions <<num, den>>, den > 0
Frac(n, d) == <<n, d>>

FracLeq(p, q) == p[1] * q[2] <= q[1] * p[2]

SetMax(S) == CHOOSE m \in S : \A e \in S : e <= m

SetMin(S) == CHOOSE m \in S : \A e \in S : m <= e

RECURSIVE SeqSum(_)
SeqSum(s) == IF s = <<>> THEN 0 ELSE Head(s) + SeqSum(Tail(s))

\* list(set): the elements of a set in some order, each once
RECURSIVE SetToSeq(_)
SetToSeq(S) ==
    IF S = {} THEN <<>>
    ELSE LET e == CHOOSE x \in S : TRUE
         IN  <<e>> \o SetToSeq(S \ {e})

----------------------------------------------------------------------------
(* Results of calls                                                        *)

Ret(v) == [kind |-> "ok", val |-> v]

Raise(type, msg) == [kind |-> "raise", type |-> type, msg |-> msg]

\* raise HTTPException(status, detail)
HTTPException(status, detail) == [kind |-> "http", status |-> status, detail |-> detail]

\* a call made by a handler, with its argument
Called(fn, arg) == [fn |-> fn, arg |-> arg]

----------------------------------------------------------------------------
(* The external h3 package                                                 *)

V4Attrs == {"latlng_to_cell", "cell_to_boundary", "grid_disk", "polygon_to_cells"}
V3Attrs == {"geo_to_h3", "h3_to_geo_boundary", "k_ring", "polyfill"}

\* the builds of the package the service may be running against
H3Builds == {V4Attrs, V3Attrs, V4Attrs \cup V3Attrs, {}}

IdxModes == {"ok", "fail", "domain"}

H3ErrorMsg == "h3 error"

\* edge length of a cell at resolution res, in units
CellUnits(res) == IF res >= DefaultRes THEN 1 ELSE 2 ^ (DefaultRes - res)

\* the cell containing the point (lat, lng), both fractions
H3Cell(lat, lng, res) ==
    <<res, lng[1] \div (lng[2] * CellUnits(res)), lat[1] \div (lat[2] * CellUnits(res))>>

InDomain(lat, lng) ==
    /\ FracLeq(Frac(0 - LatMax, 1), lat) /\ FracLeq(lat, Frac(LatMax, 1))
    /\ FracLeq(Frac(0 - LngMax, 1), lng) /\ FracLeq(lng, Frac(LngMax, 1))

\* h3.latlng_to_cell / h3.geo_to_h3
H3Index(mode, lat, lng, res) ==
    IF mode = "fail" \/ (mode = "domain" /\ ~InDomain(lat, lng))
    THEN Raise("H3Error", H3ErrorMsg)
    ELSE Ret(H3Cell(lat, lng, res))

\* h3.cell_to_boundary / h3.h3_to_geo_boundary
H3Boundary(raises, cell) ==
    IF raises THEN Raise("H3Error", H3ErrorMsg) ELSE Ret(<<"boundary", cell>>)

\* h3.grid_disk / h3.k_ring
H3Disk(raises, cell, k) ==
    IF raises THEN Raise("H3Error", H3ErrorMsg) ELSE Ret(<<"disk", cell, k>>)

----------------------------------------------------------------------------
(* helpers: compat v3/v4                                                   *)

NoIndexMsg == "H3: funcao de index nao encontrada (v3/v4)."
NoBoundaryMsg == "H3: funcao de boundary nao encontrada (v3/v4)."
NoDiskMsg == "H3: funcao de vizinhanca nao encontrada (v3/v4)."

_latlng_to_cell(attrs, mode, lat, lng, res) ==
    IF "latlng_to_cell" \in attrs THEN H3Index(mode, lat, lng, res)
    ELSE IF "geo_to_h3" \in attrs THEN H3Index(mode, lat, lng, res)
    ELSE Raise("RuntimeError", NoIndexMsg)

_cell_to_boundary(attrs, raises, cell) ==
    IF "cell_to_boundary" \in attrs THEN H3Boundary(raises, cell)
    ELSE IF "h3_to_geo_boundary" \in attrs THEN H3Boundary(raises, cell)
    ELSE Raise("RuntimeError", NoBoundaryMsg)

_grid_disk(attrs, raises, cell, k) ==
    IF "grid_disk" \in attrs THEN H3Disk(raises, cell, k)
    ELSE IF "k_ring" \in attrs THEN H3Disk(raises, cell, k)
    ELSE Raise("RuntimeError", NoDiskMsg)

----------------------------------------------------------------------------
(* endpoints: /h3/index, /h3/boundary/{cell}, /h3/kring                    *)

LatLngMsg == "lat/lng fora dos limites"
ResMsg == "res must be between 0 and 15"

\* the exception is not caught
CaughtNothing(r) == r

\* try: return {...}  except Exception as e: raise HTTPException(400, str(e))
Caught(r) == IF r.kind = "raise" THEN HTTPException(400, r.msg) ELSE r

\* the res check made before the lat/lng check
latlng_to_h3_res_first(attrs, mode, lat, lng, res) ==
    IF res < MinRes \/ res > MaxRes
    THEN [out |-> HTTPException(400, ResMsg), trace |-> <<>>]
    ELSE IF ~(0 - LatMax <= lat /\ lat <= LatMax /\ 0 - LngMax <= lng /\ lng <= LngMax)
    THEN [out |-> HTTPException(400, LatLngMsg), trace |-> <<>>]
    ELSE [out |-> Caught(_latlng_to_cell(attrs, mode, Frac(lat, 1), Frac(lng, 1), res)),
          trace |-> <<Called("_latlng_to_cell", <<lat, lng, res>>)>>]

\* the handler's outcome and the calls it made, in order
latlng_to_h3(attrs, mode, lat, lng, res) ==
    IF ~(0 - LatMax <= lat /\ lat <= LatMax /\ 0 - LngMax <= lng /\ lng <= LngMax)
    THEN [out |-> HTTPException(400, LatLngMsg), trace |-> <<>>]
    ELSE IF res < MinRes \/ res > MaxRes
    THEN [out |-> HTTPException(400, ResMsg), trace |-> <<>>]
    ELSE [out |-> Caught(_latlng_to_cell(attrs, mode, Frac(lat, 1), Frac(lng, 1), res)),
          trace |-> <<Called("_latlng_to_cell", <<lat, lng, res>>)>>]

cell_boundary(attrs, raises, cell) == Caught(_cell_to_boundary(attrs, raises, cell))

kring(attrs, raises, cell, k) == Caught(_grid_disk(attrs, raises, cell, k))

----------------------------------------------------------------------------
(* util: normalizacoes e PNP                                               *)

\* ring[:-1] when the ring repeats its first point at the end
_normalize_ring_lnglat(ring) ==
    IF Len(ring) >= 2 /\ ring[1] = ring[Len(ring)]
    THEN SubSeq(ring, 1, Len(ring) - 1)
    ELSE ring

\* min/max of the longitudes and latitudes; defined for a non-empty ring
_bbox(ring) ==
    LET lngs == {ring[i][1] : i \in 1..Len(ring)}
        lats == {ring[i][2] : i \in 1..Len(ring)}
    IN  [minx |-> SetMin(lngs), miny |-> SetMin(lats),
         maxx |-> SetMax(lngs), maxy |-> SetMax(lats)]

\* the exact crossing abscissa of edge (x1,y1)-(x2,y2) at latitude lat, minus
\* lng, times a positive factor; the edge is not horizontal
CrossSign(lng, lat, x1, y1, x2, y2) ==
    LET n == (x1 * lng[2] - lng[1]) * lat[2] * (y2 - y1)
             + lng[2] * (x2 - x1) * (lat[1] - y1 * lat[2])
    IN  IF y2 > y1 THEN n ELSE 0 - n

\* xin > lng, where xin = (x2 - x1) * (lat - y1) / (y2 - y1 + 1e-15) + x1
XinGreater(lng, lat, x1, y1, x2, y2) ==
    LET s == CrossSign(lng, lat, x1, y1, x2, y2)
    IN  IF s # 0 THEN s > 0
        ELSE (x2 - x1) * (lat[1] - y1 * lat[2]) < 0

\* the edge test with >= in place of >
EdgeTogglesGe(lng, lat, ring, i) ==
    LET n  == Len(ring)
        x1 == ring[i][1]
        y1 == ring[i][2]
        x2 == ring[(i % n) + 1][1]
        y2 == ring[(i % n) + 1][2]
        cond == (y1 * lat[2] >= lat[1]) # (y2 * lat[2] >= lat[1])
    IN  cond /\ XinGreater(lng, lat, x1, y1, x2, y2)

\* the body of the loop of _point_in_poly for edge i (1-based): TRUE when the
\* edge flips the inside flag
EdgeToggles(lng, lat, ring, i) ==
    LET n  == Len(ring)
        x1 == ring[i][1]
        y1 == ring[i][2]
        x2 == ring[(i % n) + 1][1]
        y2 == ring[(i % n) + 1][2]
        cond == (y1 * lat[2] > lat[1]) # (y2 * lat[2] > lat[1])
    IN  cond /\ XinGreater(lng, lat, x1, y1, x2, y2)

_point_in_poly(lng, lat, ring) ==
    Cardinality({i \in 1..Len(ring) : EdgeToggles(lng, lat, ring, i)}) % 2 = 1

\* max(cos(radians(lat_mid)), 0.1) as a fraction: 1/10 from 84.27 degrees on
\* (the clamp), and 1 in the equatorial band the model draws rings from,
\* where the cosine is within 1e-8 of 1 and ceil(w / step_lng) is the same
CosClamped(latMid) ==
    IF Abs(latMid[1]) * 100 >= 8427 * UnitsPerDegree * latMid[2]
    THEN Frac(1, 10)
    ELSE Frac(1, 1)

\* int(n / scale) for scale = sqrt(prod / maxPts) > 1
IntOverScale(n, prod, maxPts) ==
    CHOOSE k \in 0..n :
        /\ k * k * prod <= n * n * maxPts
        /\ (k + 1) * (k + 1) * prod > n * n * maxPts

\* w, h in units; the steps are fractions
_estimate_deg_step(res, latMid, maxPts, w, h) ==
    LET c   == CosClamped(latMid)
        nx0 == Max(1, CeilDiv(w * c[1], c[2]))
        ny0 == Max(1, CeilDiv(h, 1))
        scaled == nx0 * ny0 > maxPts
        nx  == IF scaled THEN Max(1, IntOverScale(nx0, nx0 * ny0, maxPts)) ELSE nx0
        ny  == IF scaled THEN Max(1, IntOverScale(ny0, nx0 * ny0, maxPts)) ELSE ny0
    IN  [step_lng |-> Frac(w, nx), step_lat |-> Frac(h, ny), nx |-> nx, ny |-> ny]

----------------------------------------------------------------------------
(* _sample_polyfill                                                        *)

EmptyMinMsg == "min() arg is an empty sequence"

\* lng = minx + (ix + 0.5) * step_lng, lat = miny + (iy + 0.5) * step_lat
SamplePoint(bb, est, ix, iy) ==
    [lng |-> Frac(bb.minx * 2 * est.nx + (2 * ix + 1) * (bb.maxx - bb.minx), 2 * est.nx),
     lat |-> Frac(bb.miny * 2 * est.ny + (2 * iy + 1) * (bb.maxy - bb.miny), 2 * est.ny)]

\* the two nested loops: the sample points in scan order (ix outer, iy
\* inner), those that pass the point-in-polygon test, and the cells that
\* cells.add received, in order
LatticeCells(attrs, mode, ring, res, bb, est) ==
    LET scan == [k \in 1..(est.nx * est.ny) |->
                    SamplePoint(bb, est, (k - 1) \div est.ny, (k - 1) % est.ny)]
        ins  == SelectSeq(scan, LAMBDA p : _point_in_poly(p.lng, p.lat, ring))
        idx  == [i \in 1..Len(ins) |-> _latlng_to_cell(attrs, mode, ins[i].lat, ins[i].lng, res)]
        oks  == SelectSeq(idx, LAMBDA r : r.kind = "ok")
    IN  [tested |-> Len(scan),
         inside |-> Len(ins),
         added  |-> [i \in 1..Len(oks) |-> oks[i].val]]

\* cells kept in a list instead of a set
CellListNoDedup(added) == added

\* cells = set(); cells.add(c) for each c of added; list(cells)
CellList(added) == SetToSeq({added[i] : i \in 1..Len(added)})

\* the first vertex in place of the mean
CentroidFirstVertex(ring) ==
    [lng |-> Frac(ring[1][1], 1), lat |-> Frac(ring[1][2], 1)]

\* cx, cy = sum(p[0]) / len(ring), sum(p[1]) / len(ring)
Centroid(ring) ==
    [lng |-> Frac(SeqSum([i \in 1..Len(ring) |-> ring[i][1]]), Len(ring)),
     lat |-> Frac(SeqSum([i \in 1..Len(ring) |-> ring[i][2]]), Len(ring))]

\* the outcome of the call (out) and what the call did on the way
_sample_polyfill(attrs, mode, ring_lnglat, res, maxPts) ==
    LET ring == _normalize_ring_lnglat(ring_lnglat)
    IN  IF ring = <<>>
        THEN [out |-> Raise("ValueError", EmptyMinMsg), branch |-> "empty",
              nx |-> 0, ny |-> 0, tested |-> 0, inside |-> 0, sampled |-> 0]
        ELSE
        LET bb == _bbox(ring)
            w  == bb.maxx - bb.minx
            h  == bb.maxy - bb.miny
        IN  IF w <= 0 \/ h <= 0
            THEN LET r == _latlng_to_cell(attrs, mode, Frac(ring[1][2], 1), Frac(ring[1][1], 1), res)
                 IN  [out |-> IF r.kind = "ok" THEN Ret(<<r.val>>) ELSE r,
                      branch |-> "degenerate",
                      nx |-> 0, ny |-> 0, tested |-> 0, inside |-> 0, sampled |-> 0]
            ELSE
            LET est == _estimate_deg_step(res, Frac(bb.miny + bb.maxy, 2), maxPts, w, h)
                lat == LatticeCells(attrs, mode, ring, res, bb, est)
                c   == Centroid(ring)
                r   == _latlng_to_cell(attrs, mode, c.lat, c.lng, res)
            IN  [out |-> IF lat.added # <<>> THEN Ret(CellList(lat.added))
                         ELSE IF r.kind = "ok" THEN Ret(CellList(<<r.val>>))
                         ELSE r,
                 branch |-> IF lat.added # <<>> THEN "lattice" ELSE "centroid",
                 nx |-> est.nx, ny |-> est.ny, tested |-> lat.tested,
                 inside |-> lat.inside, sampled |-> Len(CellList(lat.added))]

----------------------------------------------------------------------------
(* polyfill (v4 -> v3 -> fallback)                                         *)

InvalidPolygonMsg == "Poligono invalido: minimo de 3 pontos no anel externo."
NoPolyfillMsg == "Bindings H3 sem polygon_to_cells/polyfill."

\* h3.polygon_to_cells / h3.polyfill on a closed GeoJSON ring: the cells of
\* the ring's vertices stand for the cells the library finds
H3Polyfill(raises, gjRing, res) ==
    IF raises THEN Raise("H3Error", H3ErrorMsg)
    ELSE Ret(SetToSeq({H3Cell(Frac(gjRing[i][2], 1), Frac(gjRing[i][1], 1), res)
                         : i \in 1..Len(gjRing)}))

_polyfill_try_v4(raises, gjRing, res) == H3Polyfill(raises, gjRing, res)

_polyfill_try_v3(raises, gjRing, res) == H3Polyfill(raises, gjRing, res)

\* a count that leaves the centroid cell out
PolyfillBodyShort(cells, sampled) == [cells |-> cells, count |-> sampled]

\* return {"cells": cells, "count": len(cells)}; sampled is what the lattice
\* of the sampler yielded, 0 for a native tier
PolyfillBody(cells, sampled) == [cells |-> cells, count |-> Len(cells)]

\* coordinates is the list of rings of the request body
polyfill(attrs, nativeRaises, mode, coordinates, res) ==
    IF coordinates = <<>> \/ coordinates[1] = <<>> \/ Len(coordinates[1]) < 3
    THEN [out |-> HTTPException(400, InvalidPolygonMsg), trace |-> <<>>, tier |-> "none"]
    ELSE
    LET ring_lnglat == _normalize_ring_lnglat(coordinates[1])
        gjRing == ring_lnglat \o <<ring_lnglat[1]>>
        native ==
            IF "polygon_to_cells" \in attrs
            THEN [r |-> _polyfill_try_v4(nativeRaises, gjRing, res),
                  trace |-> <<Called("polygon_to_cells", gjRing)>>]
            ELSE IF "polyfill" \in attrs
            THEN [r |-> _polyfill_try_v3(nativeRaises, gjRing, res),
                  trace |-> <<Called("polyfill", gjRing)>>]
            ELSE [r |-> Raise("RuntimeError", NoPolyfillMsg), trace |-> <<>>]
        fb == _sample_polyfill(attrs, mode, ring_lnglat, res, DefaultMaxPts)
    IN  IF native.r.kind = "ok"
        THEN [out |-> Ret(PolyfillBody(native.r.val, 0)),
              trace |-> native.trace,
              tier |-> native.trace[1].fn]
        ELSE [out |-> IF fb.out.kind = "ok"
                      THEN Ret(PolyfillBody(fb.out.val, fb.sampled))
                      ELSE fb.out,
              trace |-> native.trace \o <<Called("_sample_polyfill", ring_lnglat)>>,
              tier |-> "_sample_polyfill"]

----------------------------------------------------------------------------
(* Inputs                                                                  *)

\* ring vertices, as offsets <<lng, lat>> from the origin of a latitude band
Pts == {<<0, 0>>, <<4, 0>>, <<3, 1>>, <<1, 3>>, <<0, 4>>}

\* the equator, and a band that straddles the pole
LatOrigins == {0, LatMax - 2}

Shifted(r, lat0) == [i \in 1..Len(r) |-> <<r[i][1], r[i][2] + lat0>>]

BaseRings == UNION {[1..n -> Pts] : n \in 0..MaxRingLen}

Rings == {Shifted(r, lat0) : r \in BaseRings, lat0 \in LatOrigins}

\* request bodies: the list of rings, with rings of the equatorial band
Bodies == {<<>>} \cup {<<r>> : r \in BaseRings}

ResSet == {MinRes, DefaultRes}

Budgets == {1, 4, DefaultMaxPts}

IndexLats == {0 - LatMax - 1, 0 - LatMax, 0, LatMax, LatMax + 1}
IndexLngs == {0 - LngMax - 1, 0 - LngMax, 0, LngMax, LngMax + 1}
IndexRes  == {MinRes - 1, MinRes, DefaultRes, MaxRes, MaxRes + 1}

CellIds == {"8928308280fffff", "not-a-cell"}

\* the points _point_in_poly is called with, as offsets like Pts
ProbePts == (0..4) \X (0..4)

----------------------------------------------------------------------------
(* Specification of the service                                            *)

NoLib == [native |-> FALSE, idx |-> "ok", cellfn |-> FALSE]

Idle ==
    /\ pc = "idle"
    /\ op = "none"
    /\ args = <<>>
    /\ lib = NoLib
    /\ trace = <<>>
    /\ out = <<>>
    /\ info = <<>>

Init ==
    /\ h3 \in H3Builds
    /\ Idle

\* GET /h3/index
Index ==
    /\ pc = "idle"
    /\ \E lat \in IndexLats, lng \in IndexLngs, res \in IndexRes, mode \in IdxModes :
         LET r == latlng_to_h3(h3, mode, lat, lng, res)
         IN  /\ r.trace = <<>> => mode = "ok"
             /\ op' = "index"
             /\ args' = [lat |-> lat, lng |-> lng, res |-> res]
             /\ lib' = [NoLib EXCEPT !.idx = mode]
             /\ trace' = r.trace
             /\ out' = r.out
    /\ info' = <<>>
    /\ pc' = "done"
    /\ UNCHANGED h3

\* GET /h3/boundary/{cell}
Boundary ==
    /\ pc = "idle"
    /\ \E cell \in CellIds, raises \in BOOLEAN :
         /\ op' = "boundary"
         /\ args' = [cell |-> cell]
         /\ lib' = [NoLib EXCEPT !.cellfn = raises]
         /\ out' = cell_boundary(h3, raises, cell)
    /\ trace' = <<>>
    /\ info' = <<>>
    /\ pc' = "done"
    /\ UNCHANGED h3

\* GET /h3/kring
Kring ==
    /\ pc = "idle"
    /\ \E cell \in CellIds, k \in {0, 1, 10}, raises \in BOOLEAN :
         /\ op' = "kring"
         /\ args' = [cell |-> cell, k |-> k]
         /\ lib' = [NoLib EXCEPT !.cellfn = raises]
         /\ out' = kring(h3, raises, cell, k)
    /\ trace' = <<>>
    /\ info' = <<>>
    /\ pc' = "done"
    /\ UNCHANGED h3

\* POST /h3/polyfill
Polyfill ==
    /\ pc = "idle"
    /\ \E body \in Bodies, res \in ResSet, nativeRaises \in BOOLEAN, mode \in {"ok", "fail"} :
         LET r == polyfill(h3, nativeRaises, mode, body, res)
         IN  /\ r.tier # "_sample_polyfill" => mode = "ok"
             /\ r.trace = <<>> => ~nativeRaises
             /\ (r.tier = "_sample_polyfill" /\ Len(r.trace) = 1) => ~nativeRaises
             /\ op' = "polyfill"
             /\ args' = [coordinates |-> body, res |-> res]
             /\ lib' = [NoLib EXCEPT !.native = nativeRaises, !.idx = mode]
             /\ trace' = r.trace
             /\ out' = r.out
             /\ info' = [tier |-> r.tier]
    /\ pc' = "done"
    /\ UNCHANGED h3

\* the response is sent; nothing of the request is kept
Respond ==
    /\ pc = "done"
    /\ pc' = "idle"
    /\ op' = "none"
    /\ args' = <<>>
    /\ lib' = NoLib
    /\ trace' = <<>>
    /\ out' = <<>>
    /\ info' = <<>>
    /\ UNCHANGED h3

Next == Index \/ Boundary \/ Kring \/ Polyfill \/ Respond

Spec == Init /\ [][Next]_vars

----------------------------------------------------------------------------
(* Specification of the sampler's functions, called on their own           *)

\* _sample_polyfill(ring, res, max_pts)
CallSamplePolyfill ==
    /\ pc = "idle"
    /\ \E ring \in Rings, res \in ResSet, maxPts \in Budgets, mode \in IdxModes :
         LET r == _sample_polyfill(h3, mode, ring, res, maxPts)
         IN  /\ op' = "_sample_polyfill"
             /\ args' = [ring |-> ring, res |-> res, maxPts |-> maxPts]
             /\ lib' = [NoLib EXCEPT !.idx = mode]
             /\ out' = r.out
             /\ info' = [branch |-> r.branch, nx |-> r.nx, ny |-> r.ny,
                         tested |-> r.tested, inside |-> r.inside, sampled |-> r.sampled]
    /\ trace' = <<>>
    /\ pc' = "done"
    /\ UNCHANGED h3

\* _estimate_deg_step(res, lat_mid, max_pts, w, h)
CallEstimateDegStep ==
    /\ pc = "idle"
    /\ \E res \in ResSet, lat0 \in LatOrigins, maxPts \in (1..MaxBudget) \cup {DefaultMaxPts},
          w \in 1..MaxExtent, h \in 1..MaxExtent :
         /\ op' = "_estimate_deg_step"
         /\ args' = [res |-> res, latMid |-> Frac(2 * lat0 + h, 2), maxPts |-> maxPts,
                     w |-> w, h |-> h]
         /\ out' = Ret(_estimate_deg_step(res, Frac(2 * lat0 + h, 2), maxPts, w, h))
    /\ lib' = NoLib
    /\ trace' = <<>>
    /\ info' = <<>>
    /\ pc' = "done"
    /\ UNCHANGED h3

\* _point_in_poly(lng, lat, ring)
CallPointInPoly ==
    /\ pc = "idle"
    /\ \E p \in ProbePts, r \in BaseRings, lat0 \in LatOrigins :
         LET lng  == Frac(p[1], 1)
             lat  == Frac(p[2] + lat0, 1)
             ring == Shifted(r, lat0)
         IN  /\ op' = "_point_in_poly"
             /\ args' = [lng |-> lng, lat |-> lat, ring |-> ring]
             /\ out' = Ret(_point_in_poly(lng, lat, ring))
             /\ info' = [toggles |-> {i \in 1..Len(ring) : EdgeToggles(lng, lat, ring, i)}]
    /\ lib' = NoLib
    /\ trace' = <<>>
    /\ pc' = "done"
    /\ UNCHANGED h3

\* the call returns to its caller
Return ==
    /\ pc = "done"
    /\ pc' = "idle"
    /\ op' = "none"
    /\ args' = <<>>
    /\ lib' = NoLib
    /\ trace' = <<>>
    /\ out' = <<>>
    /\ info' = <<>>
    /\ UNCHANGED h3

SamplerInit ==
    /\ h3 \in {V4Attrs, V3Attrs}
    /\ Idle

SamplerNext == CallSamplePolyfill \/ CallEstimateDegStep \/ CallPointInPoly \/ Return

SamplerSpec == SamplerInit /\ [][SamplerNext]_vars

----------------------------------------------------------------------------
(* Specification of the ring utilities, called on their own                *)

\* ring[::-1]
Reversed(ring) == [i \in 1..Len(ring) |-> ring[Len(ring) + 1 - i]]

\* ring[1:] + ring[:1]
Rotated(ring) == IF ring = <<>> THEN ring ELSE Tail(ring) \o <<Head(ring)>>

RingViews == {"rotated", "reversed"}

ViewOf(ring, view) == IF view = "rotated" THEN Rotated(ring) ELSE Reversed(ring)

\* _normalize_ring_lnglat(ring)
CallNormalizeRing ==
    /\ pc = "idle"
    /\ \E ring \in BaseRings :
         /\ op' = "_normalize_ring_lnglat"
         /\ args' = [ring |-> ring]
         /\ out' = Ret(_normalize_ring_lnglat(ring))
    /\ lib' = NoLib
    /\ trace' = <<>>
    /\ info' = <<>>
    /\ pc' = "done"
    /\ UNCHANGED h3

\* _point_in_poly(lng, lat, ring) and _point_in_poly(lng, lat, other) for
\* the same ring started at its second vertex or taken backwards
CallPointInPolyTwice ==
    /\ pc = "idle"
    /\ \E p \in ProbePts, ring \in BaseRings, view \in RingViews :
         LET lng == Frac(p[1], 1)
             lat == Frac(p[2], 1)
         IN  /\ op' = "_point_in_poly twice"
             /\ args' = [lng |-> lng, lat |-> lat, ring |-> ring, view |-> view]
             /\ out' = Ret(<<_point_in_poly(lng, lat, ring),
                             _point_in_poly(lng, lat, ViewOf(ring, view))>>)
    /\ lib' = NoLib
    /\ trace' = <<>>
    /\ info' = <<>>
    /\ pc' = "done"
    /\ UNCHANGED h3

RingInit ==
    /\ h3 = V4Attrs
    /\ Idle

RingNext == CallNormalizeRing \/ CallPointInPolyTwice \/ Return

RingSpec == RingInit /\ [][RingNext]_vars

----------------------------------------------------------------------------
(* scripts/ingest_raster.py                                                *)

MaxRows == 2
MaxCols == 2

DefaultMaxPixels == 400000

\* a process that ended: SystemExit(msg) ends it with status 1 and msg on
\* stderr, falling off the end of main with status 0
SystemExit(msg) == [kind |-> "exit", code |-> 1, msg |-> msg]
ExitOk == [kind |-> "exit", code |-> 0, msg |-> ""]

NoAttrMsg == "module 'h3' has no attribute 'geo_to_h3'"

\* to_cell(lat, lng, res) of the raster script
to_cell(attrs, mode, lat, lng, res) ==
    IF "latlng_to_cell" \in attrs THEN H3Index(mode, lat, lng, res)
    ELSE IF "geo_to_h3" \in attrs THEN H3Index(mode, lat, lng, res)
    ELSE Raise("AttributeError", NoAttrMsg)

\* step_from_cap = max(1, (H * W) // max(1, args.max_pixels))
\* step = max(1, max(step_from_cap, args.step))
RasterStep(H, W, argStep, maxPixels) ==
    LET step_from_cap == Max(1, (H * W) \div Max(1, maxPixels))
    IN  Max(1, Max(step_from_cap, argStep))

\* ds.xy(i, j), reprojected or not: a north-up raster of one unit per pixel
\* whose first row lies at latitude lat0; <<lat, lon>>
PixelLatLng(lat0, i, j) == <<Frac(lat0 - i, 1), Frac(j, 1)>>

\* acc.get(cell): the position of the entry of cell in the dict, 0 for None
AccIndex(acc, cell) ==
    IF \E k \in 1..Len(acc) : acc[k].cell = cell
    THEN CHOOSE k \in 1..Len(acc) : acc[k].cell = cell
    ELSE 0

\* an accumulation that keeps the last value of a cell only
AccumulateLast(acc, cell, v) ==
    LET k == IF \E n \in 1..Len(acc) : acc[n].cell = cell
             THEN CHOOSE n \in 1..Len(acc) : acc[n].cell = cell
             ELSE 0
    IN  IF k = 0
        THEN Append(acc, [cell |-> cell, s |-> v, n |-> 1])
        ELSE [acc EXCEPT ![k] = [cell |-> cell, s |-> v, n |-> 1]]

\* s = acc.get(cell); acc[cell] = [float(v), 1] or s[0] += float(v); s[1] += 1
\* the dict is the sequence of its entries in insertion order
Accumulate(acc, cell, v) ==
    LET k == AccIndex(acc, cell)
    IN  IF k = 0
        THEN Append(acc, [cell |-> cell, s |-> v, n |-> 1])
        ELSE [acc EXCEPT ![k] = [cell |-> cell, s |-> @.s + v, n |-> @.n + 1]]

\* the body of the pixel loop on pixel (i, j): the dict after it
ScanPixel(attrs, mode, a, acc, i, j) ==
    LET px == a.ndvi[i + 1][j + 1]
        ll == PixelLatLng(a.lat0, i, j)
        c  == to_cell(attrs, mode, ll[1], ll[2], a.res)
    IN  IF px.nan THEN acc
        ELSE IF c.kind = "raise" THEN acc
        ELSE Accumulate(acc, c.val, px.v)

RasterEmptyMsg == "Nenhuma celula acumulada (NDVI todo NaN?)."

RasterRows(acc) ==
    [k \in 1..Len(acc) |->
        [cell_h3 |-> acc[k].cell, ndvi_mean |-> Frac(acc[k].s, acc[k].n)]]

\* an end of main that writes whatever it has
RasterOutputAlways(acc, path, file) ==
    [out |-> IF acc = <<>> THEN [kind |-> "exit", code |-> 1,
                                 msg |-> "Nenhuma celula acumulada (NDVI todo NaN?)."]
             ELSE [kind |-> "exit", code |-> 0, msg |-> ""],
     file |-> [exists |-> TRUE,
               rows |-> [k \in 1..Len(acc) |->
                           [cell_h3 |-> acc[k].cell,
                            ndvi_mean |-> <<acc[k].s, acc[k].n>>]]],
     trace |-> <<[fn |-> "os.makedirs", arg |-> path],
                 [fn |-> "to_parquet", arg |-> path]>>]

\* if not acc: raise SystemExit(...); rows; os.makedirs; to_parquet
RasterOutput(acc, path, file) ==
    IF acc = <<>>
    THEN [out |-> SystemExit(RasterEmptyMsg), file |-> file, trace |-> <<>>]
    ELSE [out |-> ExitOk,
          file |-> [exists |-> TRUE, rows |-> RasterRows(acc)],
          trace |-> <<Called("os.makedirs", path), Called("to_parquet", path)>>]

----------------------------------------------------------------------------
(* scripts/ingest_vector.py                                                *)

MaxFeatures == 2

\* to_cell(lat, lng, res) of the vector script
vector_to_cell(attrs, mode, lat, lng, res) ==
    IF "latlng_to_cell" \in attrs
    THEN H3Index(mode, lat, lng, res)
    ELSE IF "geo_to_h3" \in attrs THEN H3Index(mode, lat, lng, res)
         ELSE Raise("AttributeError", NoAttrMsg)

\* {to_cell(p.y, p.x, res) for p in pts}: the set of cells, or the exception
\* of the first point whose indexing raises; pts are <<lat, lng>> in units
PointCells(attrs, mode, pts, res) ==
    LET rs == [k \in 1..Len(pts) |->
                 vector_to_cell(attrs, mode, Frac(pts[k][1], 1), Frac(pts[k][2], 1), res)]
        bad == {k \in 1..Len(pts) : rs[k].kind = "raise"}
    IN  IF bad # {} THEN rs[SetMin(bad)]
        ELSE Ret({rs[k].val : k \in 1..Len(pts)})

\* line_to_cells(line, res, step_m); pts are the points line.interpolate
\* yields, the single vertex for a line of length 0
line_to_cells(attrs, mode, pts, res) == PointCells(attrs, mode, pts, res)

\* polyfill_polygon(poly, res): h3.polyfill where the build has it and it does
\* not raise, the sampled fallback otherwise; pts are the points of the
\* polygon that either of them finds
polyfill_polygon(attrs, nativeRaises, mode, pts, res) ==
    IF "polyfill" \in attrs /\ ~nativeRaises
    THEN Ret({H3Cell(Frac(pts[k][1], 1), Frac(pts[k][2], 1), res) : k \in 1..Len(pts)})
    ELSE PointCells(attrs, mode, pts, res)

\* s = set(); for g in geom.geoms: s.update(...): the union of the results
\* rs, or the first exception among them
UpdateAll(rs) ==
    LET bad == {k \in 1..Len(rs) : rs[k].kind = "raise"}
    IN  IF bad # {} THEN rs[SetMin(bad)]
        ELSE Ret(UNION {rs[k].val : k \in 1..Len(rs)})

\* list(s)
ListOf(r) == IF r.kind = "raise" THEN r ELSE Ret(SetToSeq(r.val))

\* geom_to_cells(geom, res, step_m); a geometry is its type and its parts,
\* an empty geometry has no part
geom_to_cells(attrs, l, geom, res) ==
    IF geom.parts = <<>> THEN Ret(<<>>)
    ELSE IF geom.type = "Point"
    THEN LET c == vector_to_cell(attrs, l.idx, Frac(geom.parts[1][1][1], 1),
                                 Frac(geom.parts[1][1][2], 1), res)
         IN  IF c.kind = "raise" THEN c ELSE Ret(<<c.val>>)
    ELSE IF geom.type = "LineString"
    THEN ListOf(line_to_cells(attrs, l.idx, geom.parts[1], res))
    ELSE IF geom.type = "Polygon"
    THEN ListOf(polyfill_polygon(attrs, l.native, l.idx, geom.parts[1], res))
    ELSE IF geom.type = "MultiLineString"
    THEN ListOf(UpdateAll([k \in 1..Len(geom.parts) |->
                    line_to_cells(attrs, l.idx, geom.parts[k], res)]))
    ELSE IF geom.type = "MultiPolygon"
    THEN ListOf(UpdateAll([k \in 1..Len(geom.parts) |->
                    polyfill_polygon(attrs, l.native, l.idx, geom.parts[k], res)]))
    ELSE IF geom.type = "MultiPoint"
    THEN ListOf(PointCells(attrs, l.idx, geom.parts[1], res))
    ELSE Ret(<<>>)

\* props = {k: (None if pd.isna(r[k]) else r[k]) for k in attrs}, for the one
\* attribute column of the layer
Props(feature) == IF feature.name = "nan" THEN "None" ELSE feature.name

\* for c in cells: rows.append({"cell_h3": c, **props})
AppendRows(rows, cells, feature) ==
    rows \o [k \in 1..Len(cells) |-> [cell_h3 |-> cells[k], name |-> Props(feature)]]

VectorEmptyMsg == "Nenhuma celula gerada."

\* if not rows: raise SystemExit(...); os.makedirs; df[cols].to_parquet
VectorOutput(rows, path, file) ==
    IF rows = <<>>
    THEN [out |-> SystemExit(VectorEmptyMsg), file |-> file, trace |-> <<>>]
    ELSE [out |-> ExitOk,
          file |-> [exists |-> TRUE, rows |-> rows],
          trace |-> <<Called("os.makedirs", path), Called("to_parquet", path)>>]

\* gdf.head(args.max_features) when args.max_features is neither None nor 0
Head_(gdf, max_features) ==
    IF max_features = 0 THEN gdf ELSE SubSeq(gdf, 1, Min(max_features, Len(gdf)))

----------------------------------------------------------------------------
(* Specification of the ingestion scripts, one run of a script at a time   *)

\* ndvi[i, j]: NaN where the mask is off, a value otherwise
Pixels == {[nan |-> TRUE, v |-> 0], [nan |-> FALSE, v |-> 0 - 1], [nan |-> FALSE, v |-> 3]}

Images == UNION {[1..H -> [1..W -> Pixels]] : H \in 1..MaxRows, W \in 1..MaxCols}

ArgSteps == {0, 2}

ArgMaxPixels == {2, DefaultMaxPixels}

\* latitude of the first row of the raster: at the equator, or one row
\* beyond the pole
RasterOrigins == {1, LatMax + 1}

IngestIdxModes == {"ok", "domain"}

RasterPath == "data/raster_h3.parquet"
VectorPath == "data/vector_h3.parquet"

\* what is at the output path before the run
NoFile == [exists |-> FALSE, rows |-> <<>>]
OldRasterFile ==
    [exists |-> TRUE, rows |-> <<[cell_h3 |-> <<DefaultRes, 7, 7>>, ndvi_mean |-> Frac(1, 1)]>>]
OldVectorFile ==
    [exists |-> TRUE, rows |-> <<[cell_h3 |-> <<DefaultRes, 7, 7>>, name |-> "old"]>>]

Geometry(type, parts) == [type |-> type, parts |-> parts]

Feature(geometry, name) == [geometry |-> geometry, name |-> name]

\* the rows of the layer that the runs read
Features ==
    { Feature(Geometry("Point", <<<< <<0, 0>> >>>>), "a"),
      Feature(Geometry("Point", <<<< <<LatMax + 1, 0>> >>>>), "a"),
      Feature(Geometry("Point", <<>>), "a"),
      Feature(Geometry("LineString", <<<< <<0, 0>>, <<0, 1>> >>>>), "nan"),
      Feature(Geometry("Polygon", <<<<>>>>), "a"),
      Feature(Geometry("Polygon", <<<< <<1, 1>>, <<LatMax + 1, 0>> >>>>), "nan"),
      Feature(Geometry("MultiLineString", <<<< <<0, 0>> >>, << <<0, 0>>, <<0, 1>> >>>>), "a"),
      Feature(Geometry("MultiPolygon", <<<<>>, << <<1, 1>> >>>>), "a"),
      Feature(Geometry("MultiPoint", <<<< <<0, 0>>, <<0, 1>>, <<0, 0>> >>>>), "nan"),
      Feature(Geometry("GeometryCollection", <<<< <<0, 0>> >>>>), "a") }

Layers == UNION {[1..n -> Features] : n \in 0..MaxFeatures}

\* --max-features: absent (None, here 0) or a number
ArgMaxFeatures == {0, 1}

\* main() of ingest_raster.py up to the pixel loop
RasterOpen ==
    /\ pc = "idle"
    /\ \E ndvi \in Images, step \in ArgSteps, max_pixels \in ArgMaxPixels,
          res \in ResSet, lat0 \in RasterOrigins,
          mode \in IngestIdxModes, file \in {NoFile, OldRasterFile} :
         /\ args' = [ndvi |-> ndvi, H |-> Len(ndvi), W |-> Len(ndvi[1]),
                     step |-> step, max_pixels |-> max_pixels, res |-> res,
                     lat0 |-> lat0, out_parquet |-> RasterPath, file |-> file]
         /\ lib' = [NoLib EXCEPT !.idx = mode]
         /\ info' = [i |-> 0, j |-> 0,
                     step |-> RasterStep(Len(ndvi), Len(ndvi[1]), step, max_pixels),
                     acc |-> <<>>, file |-> file]
    /\ op' = "ingest_raster"
    /\ out' = <<>>
    /\ trace' = <<>>
    /\ pc' = "scan"
    /\ UNCHANGED h3

\* one pass of the body of the pixel loop, and the move to the next pixel
RasterPixel ==
    /\ pc = "scan" /\ op = "ingest_raster"
    /\ info.i < args.H
    /\ LET lastOfRow == info.j + info.step >= args.W
       IN  info' = [info EXCEPT
                      !.acc = ScanPixel(h3, lib.idx, args, info.acc, info.i, info.j),
                      !.j = IF lastOfRow THEN 0 ELSE info.j + info.step,
                      !.i = IF lastOfRow THEN info.i + info.step ELSE info.i]
    /\ UNCHANGED <<h3, pc, op, args, lib, trace, out>>

\* main() of ingest_raster.py after the pixel loop
RasterClose ==
    /\ pc = "scan" /\ op = "ingest_raster"
    /\ info.i >= args.H
    /\ LET r == RasterOutput(info.acc, args.out_parquet, info.file)
       IN  /\ out' = r.out
           /\ trace' = r.trace
           /\ info' = [info EXCEPT !.file = r.file]
    /\ pc' = "done"
    /\ UNCHANGED <<h3, op, args, lib>>

\* main() of ingest_vector.py up to the feature loop
VectorOpen ==
    /\ pc = "idle"
    /\ \E gdf \in Layers, max_features \in ArgMaxFeatures, res \in ResSet,
          mode \in IngestIdxModes, raises \in BOOLEAN,
          file \in {NoFile, OldVectorFile} :
         /\ args' = [gdf |-> gdf, max_features |-> max_features, res |-> res,
                     out_parquet |-> VectorPath, file |-> file]
         /\ lib' = [NoLib EXCEPT !.idx = mode, !.native = raises]
         /\ info' = [k |-> 1, gdf |-> Head_(gdf, max_features),
                     rows |-> <<>>, file |-> file]
    /\ op' = "ingest_vector"
    /\ out' = <<>>
    /\ trace' = <<>>
    /\ pc' = "scan"
    /\ UNCHANGED h3

\* one pass of the body of the feature loop; an exception of geom_to_cells
\* leaves main and ends the process
VectorFeature ==
    /\ pc = "scan" /\ op = "ingest_vector"
    /\ info.k <= Len(info.gdf)
    /\ LET r == info.gdf[info.k]
           cells == geom_to_cells(h3, lib, r.geometry, args.res)
       IN  IF cells.kind = "raise"
           THEN /\ out' = cells
                /\ pc' = "done"
                /\ UNCHANGED info
           ELSE /\ info' = [info EXCEPT
                              !.rows = IF cells.val = <<>> THEN @
                                       ELSE AppendRows(@, cells.val, r),
                              !.k = @ + 1]
                /\ UNCHANGED <<pc, out>>
    /\ UNCHANGED <<h3, op, args, lib, trace>>

\* main() of ingest_vector.py after the feature loop
VectorClose ==
    /\ pc = "scan" /\ op = "ingest_vector"
    /\ info.k > Len(info.gdf)
    /\ LET r == VectorOutput(info.rows, args.out_parquet, info.file)
       IN  /\ out' = r.out
           /\ trace' = r.trace
           /\ info' = [info EXCEPT !.file = r.file]
    /\ pc' = "done"
    /\ UNCHANGED <<h3, op, args, lib>>

IngestInit ==
    /\ h3 \in {V4Attrs, V3Attrs, {}}
    /\ Idle

IngestNext ==
    \/ RasterOpen \/ RasterPixel \/ RasterClose
    \/ VectorOpen \/ VectorFeature \/ VectorClose
    \/ Return

IngestSpec == IngestInit /\ [][IngestNext]_vars

----------------------------------------------------------------------------
(* Properties                                                              *)

Done(o) == pc = "done" /\ op = o

\* the outer ring of the request body, <<>> when the body has no ring
OuterRing == IF args.coordinates = <<>> THEN <<>> ELSE args.coordinates[1]

\* C1: the lattice (nx, ny) returned by _estimate_deg_step has at most
\* max_pts points, and _sample_polyfill tests at most max_pts sample points
C1_PointBudget ==
    /\ Done("_estimate_deg_step") => out.val.nx * out.val.ny <= args.maxPts
    /\ (Done("_sample_polyfill") /\ info.branch \in {"lattice", "centroid"})
          => info.tested <= args.maxPts

\* C2: in POST /h3/polyfill every native tier the library exposes is tried
\* before _sample_polyfill runs, polygon_to_cells before polyfill
C2_TierOrder ==
    Done("polyfill") =>
        \A j \in 1..Len(trace) :
            /\ trace[j].fn = "_sample_polyfill" =>
                  \A f \in {"polygon_to_cells", "polyfill"} \cap h3 :
                      \E i \in 1..(j - 1) : trace[i].fn = f
            /\ trace[j].fn = "polyfill" =>
                  ("polygon_to_cells" \in h3 => \E i \in 1..(j - 1) : trace[i].fn = "polygon_to_cells")

\* C3: a POST /h3/polyfill request whose outer ring has at least 3 points
\* returns cells and count, whatever the library calls do
C3_PolyfillNeverFails ==
    (Done("polyfill") /\ Len(OuterRing) >= 3) =>
        /\ out.kind = "ok"
        /\ out.val.count = Len(out.val.cells)

\* the message of the exception the library call of the current request
\* raises, "" when it returns
IndexExcMsg ==
    IF h3 \cap {"latlng_to_cell", "geo_to_h3"} = {} THEN NoIndexMsg
    ELSE IF lib.idx = "fail" THEN H3ErrorMsg ELSE ""

BoundaryExcMsg ==
    IF h3 \cap {"cell_to_boundary", "h3_to_geo_boundary"} = {} THEN NoBoundaryMsg
    ELSE IF lib.cellfn THEN H3ErrorMsg ELSE ""

DiskExcMsg ==
    IF h3 \cap {"grid_disk", "k_ring"} = {} THEN NoDiskMsg
    ELSE IF lib.cellfn THEN H3ErrorMsg ELSE ""

InRange(a) ==
    /\ 0 - LatMax <= a.lat /\ a.lat <= LatMax
    /\ 0 - LngMax <= a.lng /\ a.lng <= LngMax
    /\ MinRes <= a.res /\ a.res <= MaxRes

AnswersLibrary(msg) ==
    IF msg # "" THEN out = [kind |-> "http", status |-> 400, detail |-> msg]
    ELSE out.kind = "ok"

\* C4: in /h3/index (inputs in range), /h3/boundary and /h3/kring an
\* exception of the library call, the shim's RuntimeError included, gives
\* HTTP 400 with the exception message as detail, and a call that returns
\* gives the success body
C4_LibraryErrorsAre400 ==
    /\ (Done("index") /\ InRange(args)) => AnswersLibrary(IndexExcMsg)
    /\ Done("boundary") => AnswersLibrary(BoundaryExcMsg)
    /\ Done("kring") => AnswersLibrary(DiskExcMsg)

\* the shim's own RuntimeError reached the client of /h3/index as a 400
C4_Witness ==
    /\ Done("index") /\ InRange(args)
    /\ out = [kind |-> "http", status |-> 400, detail |-> NoIndexMsg]

\* the ring without a repeated last point
Opened(ring) ==
    IF Len(ring) >= 2 /\ ring[1] = ring[Len(ring)] THEN SubSeq(ring, 1, Len(ring) - 1) ELSE ring

\* C5: every ring POST /h3/polyfill hands to a native call or to
\* _sample_polyfill has at least 3 vertices in opened form, and a request
\* whose outer ring does not provide 3 vertices gets HTTP 400 before any call
C5_RingsHaveThreeVertices ==
    Done("polyfill") =>
        /\ \A i \in 1..Len(trace) : Len(Opened(trace[i].arg)) >= 3
        /\ Len(Opened(OuterRing)) < 3 => (out.kind = "http" /\ out.status = 400 /\ trace = <<>>)

\* C10: /h3/index answers 400 without an indexing call when lat, lng or res
\* is out of range (bounds inclusive), the lat/lng error first, and makes
\* exactly one indexing call when all three are in range
C10_IndexValidation ==
    Done("index") =>
        LET okLatLng == /\ 0 - LatMax <= args.lat /\ args.lat <= LatMax
                        /\ 0 - LngMax <= args.lng /\ args.lng <= LngMax
            okRes    == MinRes <= args.res /\ args.res <= MaxRes
        IN  /\ ~okLatLng => (out = [kind |-> "http", status |-> 400, detail |-> LatLngMsg]
                               /\ trace = <<>>)
            /\ (okLatLng /\ ~okRes) => (out = [kind |-> "http", status |-> 400, detail |-> ResMsg]
                                          /\ trace = <<>>)
            /\ (okLatLng /\ okRes) =>
                  trace = <<[fn |-> "_latlng_to_cell", arg |-> <<args.lat, args.lng, args.res>>]>>

\* a request that violates both checks got the lat/lng error
C10_Witness ==
    /\ Done("index")
    /\ args.lat > LatMax /\ args.res > MaxRes
    /\ out.kind = "http" /\ out.detail = LatLngMsg /\ trace = <<>>

\* the ring has no extent in longitude or in latitude
FlatBox(ring) ==
    \/ \A i, j \in 1..Len(ring) : ring[i][1] = ring[j][1]
    \/ \A i, j \in 1..Len(ring) : ring[i][2] = ring[j][2]

\* all vertices lie on one line
Collinear(ring) ==
    \A i, j, k \in 1..Len(ring) :
        (ring[j][1] - ring[i][1]) * (ring[k][2] - ring[i][2])
            = (ring[k][1] - ring[i][1]) * (ring[j][2] - ring[i][2])

\* C6: for a ring whose bounding box has zero width or height the sampler
\* returns exactly the cell of the ring's first vertex and samples no
\* lattice point, and for a zero-area (collinear) ring it returns exactly
\* one cell
C6_DegenerateOneCell ==
    (Done("_sample_polyfill") /\ out.kind = "ok") =>
        LET ring == Opened(args.ring)
        IN  /\ FlatBox(ring) =>
                  /\ out.val = <<H3Cell(Frac(ring[1][2], 1), Frac(ring[1][1], 1), args.res)>>
                  /\ info.tested = 0
            /\ Collinear(ring) => Len(out.val) = 1

\* the cell of the arithmetic mean of the vertices
MeanCell(ring, res) ==
    LET n  == Len(ring)
        sx == SeqSum([i \in 1..n |-> ring[i][1]])
        sy == SeqSum([i \in 1..n |-> ring[i][2]])
    IN  <<res, sx \div (n * CellUnits(res)), sy \div (n * CellUnits(res))>>

C8_UniqueAndCapped ==
    (Done("_sample_polyfill") /\ out.kind = "ok") =>
        /\ \A i, j \in 1..Len(out.val) : out.val[i] = out.val[j] => i = j
        /\ 1 <= Len(out.val)
        /\ Len(out.val) <= Max(1, info.nx * info.ny)

\* several sample points fell inside and into the same cell
C8_Witness ==
    /\ Done("_sample_polyfill") /\ out.kind = "ok"
    /\ info.inside >= 2
    /\ Len(out.val) < info.inside

\* the sign of (crossing abscissa of the edge a-b at latitude lat) - lng, for
\* an edge that is not horizontal
AbscissaSign(lng, lat, a, b) ==
    (b[2] - a[2]) * ((a[1] * lng[2] - lng[1]) * lat[2] * (b[2] - a[2])
                      + lng[2] * (b[1] - a[1]) * (lat[1] - a[2] * lat[2]))

Above(v, lat) == v[2] * lat[2] > lat[1]

OnRay(v, lat) == v[2] * lat[2] = lat[1]

C12_CountIsLength ==
    (Done("polyfill") /\ out.kind = "ok") =>
        /\ info.tier \in {"polygon_to_cells", "polyfill", "_sample_polyfill"}
        /\ out.val.count = Len(out.val.cells)

\* the sampler answered with the centroid cell alone
C12_Witness ==
    /\ Done("polyfill") /\ out.kind = "ok"
    /\ info.tier = "_sample_polyfill"
    /\ Len(OuterRing) = 4 /\ ~FlatBox(Opened(OuterRing)) /\ Collinear(OuterRing)
    /\ out.val.count = 1

\* C13: for every ring with at least one vertex _sample_polyfill returns; on
\* a bounding box with extent the lattice has nx >= 1 and ny >= 1, the steps
\* w / nx and h / ny are strictly positive and exactly nx * ny points are
\* tested
C13_SamplerReturns ==
    /\ Done("_estimate_deg_step") =>
          /\ out.val.nx >= 1 /\ out.val.ny >= 1
          /\ out.val.step_lng[1] > 0 /\ out.val.step_lng[2] > 0
          /\ out.val.step_lat[1] > 0 /\ out.val.step_lat[2] > 0
          /\ out.val.step_lng[1] * out.val.nx = args.w * out.val.step_lng[2]
          /\ out.val.step_lat[1] * out.val.ny = args.h * out.val.step_lat[2]
    /\ (Done("_sample_polyfill") /\ Len(args.ring) >= 1) =>
          /\ out.kind = "ok"
          /\ ~FlatBox(Opened(args.ring)) =>
                (info.nx >= 1 /\ info.ny >= 1 /\ info.tested = info.nx * info.ny)

\* C15: the ring returned by _normalize_ring_lnglat has fewer than 2
\* vertices or a first vertex different from its last
C15_NormalizedIsOpen ==
    Done("_normalize_ring_lnglat") =>
        \/ Len(out.val) < 2
        \/ out.val[1] # out.val[Len(out.val)]

\* C16: _point_in_poly gives the same result for a ring, for the ring
\* started at another vertex and for the ring taken backwards
C16_RingViewsAgree ==
    Done("_point_in_poly twice") => out.val[1] = out.val[2]

\* the loop of the running script is over and main went on to its end
ScanEnded ==
    /\ pc = "done"
    /\ \/ op = "ingest_raster" /\ info.i >= args.H
       \/ op = "ingest_vector" /\ info.k > Len(info.gdf)

\* what the scan accumulated: the dict of the raster script, the row list of
\* the vector script
Accumulated == IF op = "ingest_raster" THEN info.acc ELSE info.rows

WrittenRows == IF op = "ingest_raster" THEN RasterRows(info.acc) ELSE info.rows

\* C11: when the scan of a script ends with nothing accumulated the process
\* exits with a non-zero status and a message and the file at the output path
\* is what it was before the run; when something was accumulated the file is
\* written with the rows and the process exits with status 0
C11_EmptyResultAborts ==
    ScanEnded =>
        /\ out.kind = "exit"
        /\ IF Accumulated = <<>>
           THEN /\ out.code # 0 /\ out.msg # ""
                /\ info.file = args.file
                /\ \A n \in 1..Len(trace) : trace[n].fn # "to_parquet"
           ELSE /\ out.code = 0
                /\ info.file.exists /\ info.file.rows = WrittenRows
                /\ \E n \in 1..Len(trace) :
                      trace[n] = Called("to_parquet", args.out_parquet)

\* a raster run with a valid pixel whose indexing raised found an older file
\* at the output path and left it there
C11_Witness ==
    /\ ScanEnded /\ op = "ingest_raster"
    /\ ~args.ndvi[1][1].nan
    /\ info.acc = <<>>
    /\ args.file = OldRasterFile /\ info.file = OldRasterFile
    /\ out = SystemExit(RasterEmptyMsg)

\* the pixels the loop of the raster script has been through
SeenPixels ==
    {p \in (0..(args.H - 1)) \X (0..(args.W - 1)) :
        /\ p[1] % info.step = 0 /\ p[2] % info.step = 0
        /\ (p[1] < info.i \/ (p[1] = info.i /\ p[2] < info.j))}

PixelValue(p) == args.ndvi[p[1] + 1][p[2] + 1]

PixelCell(p) ==
    LET ll == PixelLatLng(args.lat0, p[1], p[2])
    IN  to_cell(h3, lib.idx, ll[1], ll[2], args.res)

Skipped(p) == PixelValue(p).nan \/ PixelCell(p).kind = "raise"

\* the pixels seen so far that are not NaN and were indexed without error
Counted == {p \in SeenPixels : ~Skipped(p)}

CountedIn(cell) == {p \in Counted : PixelCell(p).val = cell}

\* the sum of the values of a set of pixels, whatever the order
RECURSIVE SumOver(_)
SumOver(S) ==
    IF S = {} THEN 0
    ELSE LET p == CHOOSE q \in S : TRUE
         IN  PixelValue(p).v + SumOver(S \ {p})

AccIsAggregate ==
    LET acc == info.acc
    IN  /\ \A k \in 1..Len(acc) :
              /\ acc[k].n >= 1
              /\ acc[k].n = Cardinality(CountedIn(acc[k].cell))
              /\ acc[k].s = SumOver(CountedIn(acc[k].cell))
              /\ \A m \in 1..Len(acc) : acc[m].cell = acc[k].cell => m = k
        /\ \A p \in Counted : \E k \in 1..Len(acc) : acc[k].cell = PixelCell(p).val
        /\ SeqSum([k \in 1..Len(acc) |-> acc[k].n]) = Cardinality(Counted)

RowsAreMeans ==
    (pc = "done" /\ out = ExitOk) =>
        /\ Len(info.file.rows) = Len(info.acc)
        /\ \A k \in 1..Len(info.acc) :
              LET row == info.file.rows[k]
                  of  == CountedIn(row.cell_h3)
              IN  /\ row.cell_h3 = info.acc[k].cell
                  /\ Cardinality(of) >= 1
                  /\ row.ndvi_mean[2] > 0
                  /\ row.ndvi_mean[1] * Cardinality(of) = SumOver(of) * row.ndvi_mean[2]

\* a pass of the pixel loop over a NaN pixel or a pixel whose indexing raises
SkippingPass ==
    /\ pc = "scan" /\ op = "ingest_raster"
    /\ info.i < args.H
    /\ Skipped(<<info.i, info.j>>)
    /\ info' # info

\* C14: after any prefix of the pixel scan acc holds, for every cell, the sum
\* and the count of the sampled pixels seen so far that are not NaN and were
\* indexed to that cell without error, and for no other cell; the counts add
\* up to the number of such pixels; a pass over a NaN pixel or over a pixel
\* whose indexing raises leaves acc as it was; every written row belongs to a
\* cell of count >= 1 and its ndvi_mean is the sum over the count of the
\* pixels of the cell taken as a set
C14_AccIsRunningAggregate ==
    /\ []((op = "ingest_raster") => (AccIsAggregate /\ RowsAreMeans))
    /\ [][SkippingPass => info.acc' = info.acc]_vars

\* a run wrote the mean of two pixels of one cell after a NaN pixel and a
\* pixel whose indexing raised
C14_Witness ==
    /\ ScanEnded /\ op = "ingest_raster" /\ out = ExitOk
    /\ \E p \in SeenPixels : PixelValue(p).nan
    /\ \E p \in SeenPixels : ~PixelValue(p).nan /\ PixelCell(p).kind = "raise"
    /\ \E k \in 1..Len(info.acc) :
          /\ info.acc[k].n = 2
          /\ info.file.rows[k].ndvi_mean = Frac(2, 2)

====
